---------------------------- MODULE Spec2Model ----------------------------
(***************************************************************************)
(* The encryption-at-rest subsystem of ChitraHarsha VisvaDarsana:          *)
(* EnterpriseEncryptionModule (src/unnamed/part_005, lines 511-952) and    *)
(* the calls AdvancedSecuritySystem (src/unnamed/part_006) makes on it.    *)
(*                                                                         *)
(* A JavaScript string is a sequence of UTF-16 code units (naturals); a    *)
(* byte array is a sequence of naturals below 256.  A call that throws is  *)
(* a result record with ok = FALSE.  AES-GCM and PBKDF2 are the platform's *)
(* (crypto.subtle) and are modelled symbolically: a key is the pair        *)
(* (passphrase, salt) it was derived from, a ciphertext names the key and  *)
(* the nonce it was sealed under and opens under those alone.              *)
(***************************************************************************)
EXTENDS Integers, Sequences, FiniteSets, TLC

VARIABLES
  localStorage,   \* window.localStorage: storage name -> item
  isInitialized,  \* EnterpriseEncryptionModule.isInitialized
  masterKey,      \* EnterpriseEncryptionModule.masterKey
  pending,        \* async calls suspended at their await, in call order
  last,           \* the call that returned most recently, with its result
  history,        \* what the engine instance and the slots went through
  lz,             \* a compress / decompress call on its own
  sessions,       \* UserAuthenticationSystem.sessions: the ids it holds
  isLocked,       \* AdvancedSecuritySystem.isLocked
  auth            \* UserAuthenticationSystem: clock, loginAttempts, otpStore, calls

vars ==
  <<localStorage, isInitialized, masterKey, pending, last, history, lz, sessions,
    isLocked, auth>>

(***************************************************************************)
(* Bounds of the model.                                                    *)
(***************************************************************************)
NumPass == 2      \* passphrases 1..NumPass
NumSalts == 2     \* values crypto.getRandomValues can give a salt
NumIVs == 2       \* values crypto.getRandomValues can give a nonce
NumKeys == 1      \* secure-store keys 1..NumKeys
MaxPending == 1   \* async calls suspended at one time
MaxReloads == 1   \* page loads after the first (each constructs the engine)
MaxLen == 3       \* length of the strings given to compress on its own
MaxOverlap == 2   \* initialize calls suspended at one time in SpecOverlap
NumSessions == 2  \* session ids 1..NumSessions

(***************************************************************************)
(* Strings and results.                                                    *)
(***************************************************************************)
Ok(s) == [ok |-> TRUE, err |-> "", s |-> s]
Throw(e) == [ok |-> FALSE, err |-> e, s |-> <<>>]

\* The code units the model writes by name.
ChQuote == 34
ChBackslash == 92
ChEquals == 61

\* "0".."9"
IsDigit(c) == c >= 48 /\ c <= 57

(***************************************************************************)
(* btoa / atob: the platform's base64 (WHATWG forgiving-base64).           *)
(***************************************************************************)
B64Char(i) ==
  IF i < 26 THEN 65 + i
  ELSE IF i < 52 THEN 97 + (i - 26)
  ELSE IF i < 62 THEN 48 + (i - 52)
  ELSE IF i = 62 THEN 43 ELSE 47

IsB64Char(c) ==
  \/ (c >= 65 /\ c <= 90)
  \/ (c >= 97 /\ c <= 122)
  \/ IsDigit(c)
  \/ c = 43
  \/ c = 47

B64Val(c) ==
  IF c >= 65 /\ c <= 90 THEN c - 65
  ELSE IF c >= 97 /\ c <= 122 THEN c - 97 + 26
  ELSE IF IsDigit(c) THEN c - 48 + 52
  ELSE IF c = 43 THEN 62 ELSE 63

RECURSIVE B64Encode(_)
B64Encode(b) ==
  IF Len(b) = 0 THEN <<>>
  ELSE IF Len(b) = 1 THEN
    <<B64Char(b[1] \div 4), B64Char((b[1] % 4) * 16), ChEquals, ChEquals>>
  ELSE IF Len(b) = 2 THEN
    <<B64Char(b[1] \div 4), B64Char((b[1] % 4) * 16 + b[2] \div 16),
      B64Char((b[2] % 16) * 4), ChEquals>>
  ELSE
    <<B64Char(b[1] \div 4), B64Char((b[1] % 4) * 16 + b[2] \div 16),
      B64Char((b[2] % 16) * 4 + b[3] \div 64), B64Char((b[3] % 64))>>
    \o B64Encode(SubSeq(b, 4, Len(b)))

\* btoa throws InvalidCharacterError on a code unit above 255.
btoa(s) ==
  IF \E i \in 1..Len(s) : s[i] > 255
  THEN Throw("InvalidCharacterError")
  ELSE Ok(B64Encode(s))

IsAsciiWs(c) == c \in {9, 10, 12, 13, 32}

RECURSIVE StripWs(_)
StripWs(s) ==
  IF Len(s) = 0 THEN <<>>
  ELSE IF IsAsciiWs(s[1]) THEN StripWs(Tail(s))
  ELSE <<s[1]>> \o StripWs(Tail(s))

\* Up to two "=" are dropped from the end of a text of length 0 mod 4.
StripPad(s) ==
  IF Len(s) % 4 = 0 /\ Len(s) > 0 /\ s[Len(s)] = ChEquals
  THEN IF s[Len(s) - 1] = ChEquals
       THEN SubSeq(s, 1, Len(s) - 2)
       ELSE SubSeq(s, 1, Len(s) - 1)
  ELSE s

RECURSIVE B64Decode(_)
B64Decode(t) ==
  IF Len(t) < 2 THEN <<>>
  ELSE IF Len(t) = 2 THEN
    <<B64Val(t[1]) * 4 + B64Val(t[2]) \div 16>>
  ELSE IF Len(t) = 3 THEN
    <<B64Val(t[1]) * 4 + B64Val(t[2]) \div 16,
      (B64Val(t[2]) % 16) * 16 + B64Val(t[3]) \div 4>>
  ELSE
    <<B64Val(t[1]) * 4 + B64Val(t[2]) \div 16,
      (B64Val(t[2]) % 16) * 16 + B64Val(t[3]) \div 4,
      (B64Val(t[3]) % 4) * 64 + B64Val(t[4])>>
    \o B64Decode(SubSeq(t, 5, Len(t)))

atob(s) ==
  LET t == StripPad(StripWs(s)) IN
  IF Len(t) % 4 = 1 \/ (\E i \in 1..Len(t) : ~IsB64Char(t[i]))
  THEN Throw("InvalidCharacterError")
  ELSE Ok(B64Decode(t))

(***************************************************************************)
(* compress: the dictionary pass of lines 613-637.  dict is the sequence   *)
(* of the phrases inserted so far; the j-th inserted phrase has code       *)
(* 255 + j (code starts at 256 and grows by one per insertion).            *)
(***************************************************************************)
InDict(dict, phrase) == \E j \in 1..Len(dict) : dict[j] = phrase

DictCode(dict, phrase) == 255 + (CHOOSE j \in 1..Len(dict) : dict[j] = phrase)

\* phrase.length > 1 ? dict[phrase] : phrase.charCodeAt(0)
EmitCode(dict, phrase) ==
  IF Len(phrase) > 1 THEN DictCode(dict, phrase) ELSE phrase[1]

\* One turn of the for loop of lines 620-632, on [phrase, dict, output].
CompressStep(currChar, combined, st) ==
  IF InDict(st.dict, combined)
  THEN [st EXCEPT !.phrase = combined]
  ELSE [phrase |-> <<currChar>>,
        dict |-> Append(st.dict, combined),
        output |-> Append(st.output, EmitCode(st.dict, st.phrase))]

\* The turns i..j of the loop, in order.  The range is halved and the
\* first half is computed before the second is entered (Len(st.output) >= 0
\* asks for its value), to keep the evaluation shallow on long texts.
RECURSIVE CompressLoop(_, _, _, _)
CompressLoop(data, i, j, st) ==
  IF Len(st.output) >= 0 /\ i > j THEN st
  ELSE IF i = j THEN CompressStep(data[i], Append(st.phrase, data[i]), st)
  ELSE CompressLoop(data, (i + j) \div 2 + 1, j,
                    CompressLoop(data, i, (i + j) \div 2, st))

\* Line 633: the last phrase is pushed.
CompressEnd(st) == Append(st.output, EmitCode(st.dict, st.phrase))

\* The codes compress pushes to output, before the base64 step.
CompressCodes(data) ==
  CompressEnd(CompressLoop(data, 2, Len(data),
                           [phrase |-> <<data[1]>>, dict |-> <<>>, output |-> <<>>]))

\* data[0] of the empty string is undefined, and phrase.length then throws.
compress(data) ==
  IF Len(data) = 0
  THEN Throw("TypeError")
  ELSE btoa(CompressCodes(data))

(***************************************************************************)
(* decompress: lines 644-680.  Never throws: the catch returns its input.  *)
(***************************************************************************)
\* dict[currCode] is truthy
DictHas(dict, code) == code >= 256 /\ code <= 255 + Len(dict)

RECURSIVE DecompressLoop(_, _, _, _)
DecompressLoop(codes, i, phrase, st) ==
  \* st = [dict, output]; code = 256 + Len(st.dict)
  IF i > Len(codes) THEN st.output
  ELSE LET currCode == codes[i]
           entry == IF DictHas(st.dict, currCode) THEN st.dict[currCode - 255]
                    ELSE IF currCode = 256 + Len(st.dict)
                         THEN Append(phrase, phrase[1])
                         ELSE <<currCode>> IN
       DecompressLoop(codes, i + 1, entry,
                      [dict |-> Append(st.dict, Append(phrase, entry[1])),
                       output |-> st.output \o entry])

decompress(compressed) ==
  LET data == atob(compressed) IN
  IF ~data.ok THEN compressed
  ELSE LET codes == data.s
           \* String.fromCharCode(undefined) is the code unit 0
           first == IF Len(codes) = 0 THEN 0 ELSE codes[1] IN
       DecompressLoop(codes, 2, <<first>>, [dict |-> <<>>, output |-> <<first>>])

(***************************************************************************)
(* TextEncoder.encode / TextDecoder.decode: UTF-8 of code units below      *)
(* 0x800 (the model writes no surrogate and nothing above).                *)
(***************************************************************************)
RECURSIVE Utf8Encode(_)
Utf8Encode(s) ==
  IF Len(s) = 0 THEN <<>>
  ELSE (IF s[1] < 128 THEN <<s[1]>>
        ELSE <<192 + (s[1] \div 64), 128 + (s[1] % 64)>>)
       \o Utf8Encode(Tail(s))

RECURSIVE Utf8Decode(_)
Utf8Decode(b) ==
  IF Len(b) = 0 THEN <<>>
  ELSE IF b[1] < 128 THEN <<b[1]>> \o Utf8Decode(Tail(b))
  ELSE IF b[1] >= 192 /\ b[1] < 224 /\ Len(b) >= 2
    THEN <<(b[1] - 192) * 64 + (b[2] - 128)>> \o Utf8Decode(SubSeq(b, 3, Len(b)))
  ELSE <<65533>> \o Utf8Decode(Tail(b))

(***************************************************************************)
(* JSON values.  One record shape for every value, so that any two values  *)
(* compare: t is the type; b, n, s hold a boolean, a number (an integer),  *)
(* a string; items holds an array's elements (k empty) or an object's      *)
(* members in insertion order.                                             *)
(***************************************************************************)
JNull == [t |-> "null", b |-> FALSE, n |-> 0, s |-> <<>>, items |-> <<>>]
JBool(b) == [t |-> "bool", b |-> b, n |-> 0, s |-> <<>>, items |-> <<>>]
JNum(n) == [t |-> "num", b |-> FALSE, n |-> n, s |-> <<>>, items |-> <<>>]
JStr(s) == [t |-> "str", b |-> FALSE, n |-> 0, s |-> s, items |-> <<>>]
JArr(items) == [t |-> "arr", b |-> FALSE, n |-> 0, s |-> <<>>, items |-> items]
JObj(items) == [t |-> "obj", b |-> FALSE, n |-> 0, s |-> <<>>, items |-> items]
Member(k, v) == [k |-> k, v |-> v]

TxtNull == <<110, 117, 108, 108>>
TxtTrue == <<116, 114, 117, 101>>
TxtFalse == <<102, 97, 108, 115, 101>>

RECURSIVE Digits(_)
Digits(n) == IF n < 10 THEN <<48 + n>> ELSE Digits(n \div 10) \o <<48 + (n % 10)>>

\* Number.prototype.toString of an integer
NumToString(n) == IF n < 0 THEN <<45>> \o Digits(0 - n) ELSE Digits(n)

HexDigit(d) == IF d < 10 THEN 48 + d ELSE 97 + (d - 10)

\* JSON.stringify's escape of one code unit inside a string
EscapeChar(c) ==
  IF c = ChQuote THEN <<ChBackslash, ChQuote>>
  ELSE IF c = ChBackslash THEN <<ChBackslash, ChBackslash>>
  ELSE IF c = 8 THEN <<ChBackslash, 98>>
  ELSE IF c = 9 THEN <<ChBackslash, 116>>
  ELSE IF c = 10 THEN <<ChBackslash, 110>>
  ELSE IF c = 12 THEN <<ChBackslash, 102>>
  ELSE IF c = 13 THEN <<ChBackslash, 114>>
  ELSE IF c < 32 THEN <<ChBackslash, 117, 48, 48, HexDigit(c \div 16), HexDigit(c % 16)>>
  ELSE <<c>>

RECURSIVE EscapeString(_)
EscapeString(s) ==
  IF Len(s) = 0 THEN <<>> ELSE EscapeChar(s[1]) \o EscapeString(Tail(s))

QuoteString(s) == <<ChQuote>> \o EscapeString(s) \o <<ChQuote>>

RECURSIVE JSONstringify(_)
RECURSIVE StringifyItems(_, _, _)
\* The members from the i-th on, comma-separated; keys written for an object.
StringifyItems(items, i, withKeys) ==
  IF i > Len(items) THEN <<>>
  ELSE (IF i > 1 THEN <<44>> ELSE <<>>)
       \o (IF withKeys THEN QuoteString(items[i].k) \o <<58>> ELSE <<>>)
       \o JSONstringify(items[i].v)
       \o StringifyItems(items, i + 1, withKeys)

JSONstringify(v) ==
  IF v.t = "null" THEN TxtNull
  ELSE IF v.t = "bool" THEN (IF v.b THEN TxtTrue ELSE TxtFalse)
  ELSE IF v.t = "num" THEN NumToString(v.n)
  ELSE IF v.t = "str" THEN QuoteString(v.s)
  ELSE IF v.t = "arr" THEN <<91>> \o StringifyItems(v.items, 1, FALSE) \o <<93>>
  ELSE <<123>> \o StringifyItems(v.items, 1, TRUE) \o <<125>>

\* typeof data === "object" (null, arrays and objects)
TypeofIsObject(v) == v.t \in {"null", "arr", "obj"}

\* String(data) of a primitive
StringOf(v) ==
  IF v.t = "str" THEN v.s
  ELSE IF v.t = "num" THEN NumToString(v.n)
  ELSE IF v.t = "bool" THEN (IF v.b THEN TxtTrue ELSE TxtFalse)
  ELSE TxtNull

(***************************************************************************)
(* JSON.parse: a recursive-descent parser of null, true, false, integers,  *)
(* strings (with their escapes), arrays and objects, with JSON whitespace. *)
(* A number with a fraction or an exponent is outside the model's values   *)
(* and is refused.  A parse result is [ok, v, i]: i is the next position.  *)
(***************************************************************************)
ParseFail == [ok |-> FALSE, v |-> JNull, i |-> 0]
Parsed(v, i) == [ok |-> TRUE, v |-> v, i |-> i]

IsJsonWs(c) == c \in {9, 10, 13, 32}

RECURSIVE SkipWs(_, _)
SkipWs(t, i) ==
  IF i <= Len(t) /\ IsJsonWs(t[i]) THEN SkipWs(t, i + 1) ELSE i

\* Whether the text has the literal lit at position i.
HasLiteral(t, i, lit) ==
  /\ i + Len(lit) - 1 <= Len(t)
  /\ SubSeq(t, i, i + Len(lit) - 1) = lit

IsHex(c) == IsDigit(c) \/ (c >= 97 /\ c <= 102) \/ (c >= 65 /\ c <= 70)
HexVal(c) == IF IsDigit(c) THEN c - 48 ELSE IF c >= 97 THEN c - 87 ELSE c - 55

\* The code unit an escape letter stands for; 0 when it is no escape letter.
Unescape(c) ==
  IF c \in {ChQuote, ChBackslash, 47} THEN c
  ELSE IF c = 98 THEN 8
  ELSE IF c = 116 THEN 9
  ELSE IF c = 110 THEN 10
  ELSE IF c = 102 THEN 12
  ELSE IF c = 114 THEN 13
  ELSE 0

\* After the opening quote: acc is the string read so far.
RECURSIVE ParseString(_, _, _)
ParseString(t, i, acc) ==
  IF i > Len(t) THEN ParseFail
  ELSE IF t[i] = ChQuote THEN Parsed(JStr(acc), i + 1)
  ELSE IF t[i] < 32 THEN ParseFail
  ELSE IF t[i] # ChBackslash THEN ParseString(t, i + 1, Append(acc, t[i]))
  ELSE IF i + 1 > Len(t) THEN ParseFail
  ELSE IF t[i + 1] = 117 THEN
    IF i + 5 <= Len(t) /\ \A j \in (i + 2)..(i + 5) : IsHex(t[j])
    THEN ParseString(t, i + 6,
           Append(acc, HexVal(t[i + 2]) * 4096 + HexVal(t[i + 3]) * 256
                       + HexVal(t[i + 4]) * 16 + HexVal(t[i + 5])))
    ELSE ParseFail
  ELSE IF Unescape(t[i + 1]) = 0 THEN ParseFail
  ELSE ParseString(t, i + 2, Append(acc, Unescape(t[i + 1])))

\* The digits from i on: [n, i].
RECURSIVE ParseDigits(_, _, _)
ParseDigits(t, i, n) ==
  IF i <= Len(t) /\ IsDigit(t[i])
  THEN ParseDigits(t, i + 1, n * 10 + (t[i] - 48))
  ELSE [n |-> n, i |-> i]

\* After the digits d = [n, i]: a fraction or an exponent is refused.
NumberAfterDigits(t, d, neg) ==
  IF d.i <= Len(t) /\ t[d.i] \in {46, 101, 69} THEN ParseFail
  ELSE Parsed(JNum(IF neg THEN 0 - d.n ELSE d.n), d.i)

\* j is the position after the sign.
NumberAt(t, j, neg) ==
  IF j > Len(t) \/ ~IsDigit(t[j]) THEN ParseFail
  ELSE NumberAfterDigits(t, IF t[j] = 48 THEN [n |-> 0, i |-> j + 1]
                            ELSE ParseDigits(t, j, 0), neg)

ParseNumber(t, i) == NumberAt(t, IF t[i] = 45 THEN i + 1 ELSE i, t[i] = 45)

CloseOf(isObj) == IF isObj THEN 125 ELSE 93
Container(isObj, items) == IF isObj THEN JObj(items) ELSE JArr(items)

RECURSIVE ParseValue(_, _)
RECURSIVE MembersAt(_, _, _, _)

\* After a comma and the whitespace behind it: a member must follow.
AfterComma(t, i, acc, isObj) ==
  IF i <= Len(t) /\ t[i] # CloseOf(isObj) THEN MembersAt(t, i, acc, isObj)
  ELSE ParseFail

\* After a member's value and the whitespace behind it.
AfterValueWs(t, e, acc, isObj) ==
  IF e > Len(t) THEN ParseFail
  ELSE IF t[e] = CloseOf(isObj) THEN Parsed(Container(isObj, acc), e + 1)
  ELSE IF t[e] = 44 THEN AfterComma(t, SkipWs(t, e + 1), acc, isObj)
  ELSE ParseFail

\* val is the parse of a member's value, k its key (empty in an array).
AfterValue(t, k, val, acc, isObj) ==
  IF ~val.ok THEN ParseFail
  ELSE AfterValueWs(t, SkipWs(t, val.i), Append(acc, Member(k, val.v)), isObj)

\* After a key and the whitespace behind it: the colon and the value.
AfterKeyWs(t, k, c, acc) ==
  IF c <= Len(t) /\ t[c] = 58
  THEN AfterValue(t, k, ParseValue(t, c + 1), acc, TRUE)
  ELSE ParseFail

\* key is the parse of a member's key.
AfterKey(t, key, acc) ==
  IF ~key.ok THEN ParseFail
  ELSE AfterKeyWs(t, key.v.s, SkipWs(t, key.i), acc)

\* The members from position i on (no whitespace at i); acc holds those read.
MembersAt(t, i, acc, isObj) ==
  IF i > Len(t) THEN ParseFail
  ELSE IF t[i] = CloseOf(isObj) /\ Len(acc) = 0
    THEN Parsed(Container(isObj, acc), i + 1)
  ELSE IF ~isObj THEN AfterValue(t, <<>>, ParseValue(t, i), acc, FALSE)
  ELSE IF t[i] = ChQuote THEN AfterKey(t, ParseString(t, i + 1, <<>>), acc)
  ELSE ParseFail

\* After "[" or "{": the members.
ParseMembers(t, i0, acc, isObj) == MembersAt(t, SkipWs(t, i0), acc, isObj)

\* The value at position i (no whitespace at i).
ValueAt(t, i) ==
  IF i > Len(t) THEN ParseFail
  ELSE IF HasLiteral(t, i, TxtNull) THEN Parsed(JNull, i + 4)
  ELSE IF HasLiteral(t, i, TxtTrue) THEN Parsed(JBool(TRUE), i + 4)
  ELSE IF HasLiteral(t, i, TxtFalse) THEN Parsed(JBool(FALSE), i + 5)
  ELSE IF t[i] = ChQuote THEN ParseString(t, i + 1, <<>>)
  ELSE IF t[i] = 91 THEN ParseMembers(t, i + 1, <<>>, FALSE)
  ELSE IF t[i] = 123 THEN ParseMembers(t, i + 1, <<>>, TRUE)
  ELSE IF t[i] = 45 \/ IsDigit(t[i]) THEN ParseNumber(t, i)
  ELSE ParseFail

ParseValue(t, i0) == ValueAt(t, SkipWs(t, i0))

\* r is the parse of the value: only whitespace may follow it.
ParseEnd(t, r) ==
  IF r.ok /\ SkipWs(t, r.i) > Len(t)
  THEN [ok |-> TRUE, v |-> r.v]
  ELSE [ok |-> FALSE, v |-> JNull]

\* JSON.parse(text): [ok, v]; ok = FALSE is the SyntaxError.
JSONparse(t) == ParseEnd(t, ParseValue(t, 1))

(***************************************************************************)
(* Keys, salts, envelopes and the items of localStorage.                   *)
(*                                                                         *)
(* One record shape for every string the engine stores or is handed:       *)
(*   kind "none"  no entry (getItem gives null);                           *)
(*   kind "salt"  the base64 of the 32 random bytes numbered salt;         *)
(*   kind "env"   an envelope: base64 of nonce iv || AES-GCM ciphertext    *)
(*                and tag, sealed under key with nonce aiv over the bytes  *)
(*                pt; intact is FALSE once a bit of the ciphertext or tag  *)
(*                was flipped, iv # aiv once a bit of the nonce was;       *)
(*   kind "rand"  the base64 of random bytes (secureDelete's overwrite).   *)
(* src, cflag and gen are history, not data: the value and the compress    *)
(* flag of the encrypt call that made the envelope, and the page load it   *)
(* was made in.  No operation reads them.                                  *)
(***************************************************************************)
Passphrases == 1..NumPass
Salts == 1..NumSalts
IVs == 1..NumIVs
StoreKeys == 1..NumKeys

NoKey == [pw |-> 0, salt |-> 0]

\* PBKDF2 (lines 579-606): a function of the password and the salt.
deriveKey(password, salt) == [pw |-> password, salt |-> salt]

NoItem ==
  [kind |-> "none", salt |-> 0, iv |-> 0, aiv |-> 0, key |-> NoKey,
   pt |-> <<>>, intact |-> TRUE, src |-> JNull, cflag |-> FALSE, gen |-> 0]

SaltItem(salt) == [NoItem EXCEPT !.kind = "salt", !.salt = salt]

RandomItem == [NoItem EXCEPT !.kind = "rand"]

\* this.ivLength, this.tagLength (lines 517-518) and the size of the array
\* secureDelete fills with random bytes (line 833).
ivLength == 12
tagLength == 16
WipeBytes == 1024

\* The length of btoa's text for n bytes.
Base64Length(n) == 4 * ((n + 2) \div 3)

\* The length of the string an item is in the storage: the base64 text of
\* the IV, the ciphertext and the tag (lines 722-727), or of the random
\* bytes (lines 833-834); an absent item has none.
ItemLength(item) ==
  IF item.kind = "env" THEN Base64Length(ivLength + Len(item.pt) + tagLength)
  ELSE IF item.kind = "rand" THEN Base64Length(WipeBytes)
  ELSE 0

Envelope(iv, key, pt, src, cflag, gen) ==
  [NoItem EXCEPT !.kind = "env", !.iv = iv, !.aiv = iv, !.key = key,
                 !.pt = pt, !.src = src, !.cflag = cflag, !.gen = gen]

\* One bit of the ciphertext or tag region flipped.
FlipCiphertextBit(e) == [e EXCEPT !.intact = FALSE]

\* Bits of the nonce region flipped: the envelope now carries the nonce iv.
FlipNonceBits(e, iv) == [e EXCEPT !.iv = iv]

SaltName == <<"enc_salt", 0>>
SecName(k) == <<"sec_", k>>
StorageNames == {SaltName} \cup {SecName(k) : k \in StoreKeys}

\* The values given to the engine.
VProfile ==
  JObj(<<Member(<<110, 97, 109, 101>>, JStr(<<65, 108, 105, 99, 101>>)),
         Member(<<97, 103, 101>>, JNum(30))>>)
VNum7 == JNum(7)
VStr777 == JStr(<<55, 55, 55>>)
Values == {VProfile, VNum7, VStr777}

\* The strings of the storage and of the backup package.
TxtEncSalt == <<101, 110, 99, 95, 115, 97, 108, 116>>
TxtSec == <<115, 101, 99, 95>>
TxtVersion == <<118, 101, 114, 115, 105, 111, 110>>
TxtTimestamp == <<116, 105, 109, 101, 115, 116, 97, 109, 112>>
TxtData == <<100, 97, 116, 97>>
TxtObject == <<91, 111, 98, 106, 101, 99, 116, 32, 79, 98, 106, 101, 99, 116, 93>>
\* this.version (line 513): "2.0.0"
version == <<50, 46, 48, 46, 48>>
\* new Date().toISOString(), one instant: "2026-01-01T00:00:00.000Z"
Timestamps ==
  {<<50, 48, 50, 54, 45, 48, 49, 45, 48, 49, 84, 48, 48, 58, 48, 48, 58, 48, 48,
     46, 48, 48, 48, 90>>}

\* The string an item is in the storage.  The base64 texts of salts and
\* envelopes are stood for by short texts of the base64 alphabet, one per
\* item: "S" and the salt's number, "E" and the envelope's fields.
ItemText(item) ==
  IF item.kind = "salt" THEN <<83>> \o Digits(item.salt)
  ELSE IF item.kind = "rand" THEN <<82>>
  ELSE IF item.kind = "env"
    THEN <<69>> \o Digits(item.iv) \o Digits(item.aiv) \o Digits(item.key.pw)
         \o Digits(item.key.salt) \o Digits(item.gen)
         \o (IF item.intact THEN <<>> ELSE <<120>>)
  ELSE item.pt

\* The item a string written by setItem is: a salt's text is that salt, any
\* other text is held as it is.
TextItem(text) ==
  IF \E salt \in Salts : text = ItemText(SaltItem(salt))
  THEN SaltItem(CHOOSE salt \in Salts : text = ItemText(SaltItem(salt)))
  ELSE [NoItem EXCEPT !.kind = "text", !.pt = text]

\* The key string of a storage name, and the name of a key string; a key
\* outside enc_salt and the sec_ entries of the model is not tracked.
KeyText(name) == IF name = SaltName THEN TxtEncSalt ELSE TxtSec \o Digits(name[2])
Untracked == <<"other", 0>>
NameOfKey(key) ==
  IF \E n \in StorageNames : KeyText(n) = key
  THEN CHOOSE n \in StorageNames : KeyText(n) = key
  ELSE Untracked

\* A package as restoreBackup expects it, made by hand: its data names
\* enc_salt.
VSaltBackup ==
  JObj(<<Member(TxtData,
                JObj(<<Member(TxtEncSalt, JStr(ItemText(SaltItem(NumSalts))))>>))>>)
\* A package of two records: sec_1 and one more sec_ key, beyond the keys
\* whose slots the model holds.
VTwoBackup ==
  JObj(<<Member(TxtData,
                JObj(<<Member(KeyText(SecName(1)), JStr(ItemText(RandomItem))),
                       Member(KeyText(SecName(NumKeys + 1)),
                              JStr(ItemText(RandomItem)))>>))>>)
BackupValues == {VNum7, VSaltBackup, VTwoBackup}

\* Two values secureStore can store (compress accepts "7" and "8").
VNum8 == JNum(8)
RaceValues == {VNum7, VNum8}

(***************************************************************************)
(* The state.                                                              *)
(*                                                                         *)
(* last is the call that returned most recently: its arguments (k, v,      *)
(* flag, env), how it ended (outcome "returned" or "thrown", err the       *)
(* error's name) and the value it returned (val; env for an envelope).     *)
(* Every step that changes the engine or the storage sets last, so while   *)
(* last is a call the engine is as that call left it.                      *)
(*                                                                         *)
(* history: gen numbers the page loads (each constructs a new engine),     *)
(* initPw and initSalt are the passphrase given to the instance's last     *)
(* successful initialize and the salt persisted when that call read or     *)
(* created it, deleted the keys whose slot was last changed by a           *)
(* secureDelete that returned true.                                        *)
(***************************************************************************)
Ready == isInitialized /\ masterKey # NoKey

NoCall ==
  [op |-> "none", k |-> 0, v |-> JNull, flag |-> FALSE,
   env |-> NoItem, outcome |-> "none", err |-> "", val |-> JNull,
   writes |-> <<>>]

Call(op) == [NoCall EXCEPT !.op = op, !.outcome = "returned"]

Returned(c, val) == [c EXCEPT !.outcome = "returned", !.val = val]
Thrown(c, err) == [c EXCEPT !.outcome = "thrown", !.err = err]

\* A suspended call.  overtaken is not in the program: it notes, for a
\* suspended secureStore, that a secureDelete or a secureStore on its key
\* that was invoked after it has already completed.
NoPending ==
  [op |-> "none", k |-> 0, v |-> JNull, pw |-> 0, salt |-> 0, key |-> NoKey,
   env |-> NoItem, overtaken |-> FALSE]

\* The first n suspended calls, with the secureStore calls on key noted as
\* overtaken.
Overtake(calls, n, key) ==
  [i \in 1..Len(calls) |->
     IF i <= n /\ calls[i].op = "secureStore" /\ calls[i].k = key
     THEN [calls[i] EXCEPT !.overtaken = TRUE]
     ELSE calls[i]]

\* UserAuthenticationSystem as its constructor leaves it (lines 22-37): no
\* login attempts, no OTP, no call suspended.  now is Date.now().
NoAuth ==
  [now |-> 0, registered |-> TRUE,
   loginAttempts |-> [has |-> FALSE, count |-> 0, lastAttempt |-> 0],
   logins |-> <<>>,
   otp |-> [issued |-> FALSE, stored |-> FALSE, createdAt |-> 0, expiresAt |-> 0,
            attempts |-> 0, verified |-> FALSE],
   verifies |-> <<>>, accepted |-> <<>>, handled |-> 0]

Init ==
  /\ localStorage = [n \in StorageNames |-> NoItem]
  /\ isInitialized = FALSE
  /\ masterKey = NoKey
  /\ pending = <<>>
  /\ last = NoCall
  /\ history = [gen |-> 0, initPw |-> 0, initSalt |-> 0, deleted |-> {}]
  /\ lz = [phase |-> "idle", s |-> <<>>, c |-> Ok(<<>>), d |-> <<>>]
  /\ sessions = {}
  /\ isLocked = FALSE
  /\ auth = NoAuth

\* The sequence without its i-th element.
RemoveAt(seq, i) == SubSeq(seq, 1, i - 1) \o SubSeq(seq, i + 1, Len(seq))

(***************************************************************************)
(* initialize (lines 532-551).  The salt is read, or generated and         *)
(* persisted, before the first await; the call then suspends in deriveKey  *)
(* and sets masterKey and isInitialized when it resumes.                   *)
(***************************************************************************)
\* Lines 535-539: the salt the key is derived from.
\* initialize with the stored salt never read: a new salt at every call.
SaltForInit_regenerates(stored, generated) == generated

SaltForInit(stored, generated) ==
  IF stored.kind = "none" THEN generated ELSE stored.salt

\* initialize with the setItem of line 538 outside the if: every call
\* persists the salt it generated, while the key is derived from the one read.
initializeCall_rewritesSalt(masterPassword) ==
  /\ \E generated \in Salts, quotaExceeded \in BOOLEAN, unavailable \in BOOLEAN :
       LET stored == localStorage[SaltName]
           salt == SaltForInit(stored, generated)
           persisted == IF stored.kind = "none" THEN generated ELSE stored.salt IN
       IF unavailable \/ quotaExceeded
       THEN /\ last' = Returned(Call("initialize"), JBool(FALSE))
            /\ UNCHANGED <<localStorage, pending>>
       ELSE /\ localStorage' = [localStorage EXCEPT ![SaltName] = SaltItem(generated)]
            /\ pending' = Append(pending,
                 [NoPending EXCEPT !.op = "initialize", !.pw = masterPassword,
                                   !.salt = persisted,
                                   !.key = deriveKey(masterPassword, salt)])
            /\ UNCHANGED last
  /\ UNCHANGED <<isInitialized, masterKey, history, lz, sessions,
                 isLocked, auth>>

\* initialize with the setItem of line 538 in a try of its own: when the new
\* salt cannot be persisted the call goes on to derive the key from it.
initializeCall_unsavedSalt(masterPassword) ==
  /\ \E generated \in Salts, quotaExceeded \in BOOLEAN, unavailable \in BOOLEAN :
       LET stored == localStorage[SaltName]
           salt == SaltForInit(stored, generated)
           persisted == IF stored.kind = "none" THEN generated ELSE stored.salt IN
       IF unavailable
       THEN /\ last' = Returned(Call("initialize"), JBool(FALSE))
            /\ UNCHANGED <<localStorage, pending>>
       ELSE /\ localStorage' =
                 IF stored.kind = "none" /\ ~quotaExceeded
                 THEN [localStorage EXCEPT ![SaltName] = SaltItem(generated)]
                 ELSE localStorage
            /\ pending' = Append(pending,
                 [NoPending EXCEPT !.op = "initialize", !.pw = masterPassword,
                                   !.salt = persisted,
                                   !.key = deriveKey(masterPassword, salt)])
            /\ UNCHANGED last
  /\ UNCHANGED <<isInitialized, masterKey, history, lz, sessions,
                 isLocked, auth>>

\* initialize up to its await (lines 532-542): getItem, which throws when
\* the storage is unavailable; setItem of a new salt, which may throw as
\* well; then deriveKey is called and the call suspends.
initializeCall(masterPassword) ==
  /\ \E generated \in Salts, quotaExceeded \in BOOLEAN, unavailable \in BOOLEAN :
       LET stored == localStorage[SaltName]
           salt == SaltForInit(stored, generated)
           \* what enc_salt holds once lines 535-539 have run
           persisted == IF stored.kind = "none" THEN generated ELSE stored.salt IN
       IF unavailable \/ (stored.kind = "none" /\ quotaExceeded)
       THEN \* getItem or setItem throws: the catch returns false
            /\ last' = Returned(Call("initialize"), JBool(FALSE))
            /\ UNCHANGED <<localStorage, pending>>
       ELSE /\ localStorage' =
                 IF stored.kind = "none"
                 THEN [localStorage EXCEPT ![SaltName] = SaltItem(generated)]
                 ELSE localStorage
            /\ pending' = Append(pending,
                 [NoPending EXCEPT !.op = "initialize", !.pw = masterPassword,
                                   !.salt = persisted,
                                   !.key = deriveKey(masterPassword, salt)])
            /\ UNCHANGED last
  /\ UNCHANGED <<isInitialized, masterKey, history, lz, sessions,
                 isLocked, auth>>

initialize(masterPassword) ==
  /\ Len(pending) < MaxPending
  /\ initializeCall(masterPassword)

\* The await of line 542 resumes, or rejects (crypto.subtle unavailable).
initializeResume ==
  \E i \in 1..Len(pending), derived \in BOOLEAN :
    /\ pending[i].op = "initialize"
    /\ pending' = RemoveAt(pending, i)
    /\ IF derived
       THEN /\ masterKey' = pending[i].key
            /\ isInitialized' = TRUE
            /\ history' = [history EXCEPT !.initPw = pending[i].pw,
                                          !.initSalt = pending[i].salt]
            /\ last' = Returned(Call("initialize"), JBool(TRUE))
       ELSE /\ last' = Returned(Call("initialize"), JBool(FALSE))
            /\ UNCHANGED <<masterKey, isInitialized, history>>
    /\ UNCHANGED <<localStorage, lz, sessions,
                 isLocked, auth>>

(***************************************************************************)
(* encrypt (lines 688-732) and decrypt (lines 740-785).  Everything a      *)
(* call computes is fixed when it suspends at crypto.subtle: the key is    *)
(* read as the argument of that call, and nothing after the await reads    *)
(* or writes the engine or the storage.                                    *)
(***************************************************************************)
\* typeof data === "object" ? JSON.stringify(data) : String(data)
DataString(data) ==
  IF TypeofIsObject(data) THEN JSONstringify(data) ELSE StringOf(data)

\* Lines 694-700: the text that is sealed, or the error compress throws.
ProcessData(data, compressFlag) ==
  IF compressFlag THEN compress(DataString(data)) ELSE Ok(DataString(data))

\* ProcessData over the values of the model, computed once.
ProcessedTable ==
  {<<d, c, ProcessData(d, c)>> : d \in Values \cup BackupValues \cup RaceValues,
                                c \in BOOLEAN}

Processed(data, compressFlag) ==
  (CHOOSE t \in ProcessedTable : t[1] = data /\ t[2] = compressFlag)[3]

\* encrypt without the check of lines 689-691.
encryptResult_unguarded(data, compressFlag, iv) ==
  LET processedData == Processed(data, compressFlag) IN
  IF ~processedData.ok
  THEN [ok |-> FALSE, err |-> processedData.err, env |-> NoItem]
  ELSE IF masterKey = NoKey
  THEN [ok |-> FALSE, err |-> "TypeError", env |-> NoItem]
  ELSE [ok |-> TRUE, err |-> "",
        env |-> Envelope(iv, masterKey, Utf8Encode(processedData.s),
                         data, compressFlag, history.gen)]

\* [ok, err, env]: the envelope, or the error thrown.
encryptResult(data, compressFlag, iv) ==
  IF ~isInitialized
  THEN [ok |-> FALSE, err |-> "NotInitialized", env |-> NoItem]
  ELSE LET processedData == Processed(data, compressFlag) IN
       IF ~processedData.ok
       THEN [ok |-> FALSE, err |-> processedData.err, env |-> NoItem]
       ELSE IF masterKey = NoKey
       THEN [ok |-> FALSE, err |-> "TypeError", env |-> NoItem]
       ELSE [ok |-> TRUE, err |-> "",
             env |-> Envelope(iv, masterKey, Utf8Encode(processedData.s),
                              data, compressFlag, history.gen)]

\* AES-GCM opens a ciphertext under the key and the nonce it was sealed with.
AesGcmOpens(key, e) ==
  /\ e.kind = "env"
  /\ e.intact
  /\ e.iv = e.aiv
  /\ e.key = key

\* Lines 766-780: decode, decompress if asked, JSON.parse or the raw string.
ParseOrRaw(decryptedData, parsed) ==
  IF parsed.ok THEN parsed.v ELSE JStr(decryptedData)

DecodePlaintext(pt, decompressFlag) ==
  LET decoded == Utf8Decode(pt)
      decryptedData == IF decompressFlag THEN decompress(decoded) ELSE decoded IN
  ParseOrRaw(decryptedData, JSONparse(decryptedData))

\* The plaintexts the model's envelopes can hold, and DecodePlaintext over
\* them, computed once.
Plaintexts == {Utf8Encode(t[3].s) : t \in {u \in ProcessedTable : u[3].ok}}

DecodedTable ==
  {<<pt, d, DecodePlaintext(pt, d)>> : pt \in Plaintexts, d \in BOOLEAN}

Decoded(pt, decompressFlag) ==
  (CHOOSE t \in DecodedTable : t[1] = pt /\ t[2] = decompressFlag)[3]

\* decrypt with a cipher that does not authenticate (no tag, any key opens).
decryptResult_unauthenticated(encryptedData, decompressFlag) ==
  IF ~isInitialized
  THEN [ok |-> FALSE, err |-> "NotInitialized", val |-> JNull]
  ELSE IF masterKey = NoKey
  THEN [ok |-> FALSE, err |-> "TypeError", val |-> JNull]
  ELSE IF encryptedData.kind # "env"
  THEN [ok |-> FALSE, err |-> "OperationError", val |-> JNull]
  ELSE [ok |-> TRUE, err |-> "",
        val |-> Decoded(encryptedData.pt, decompressFlag)]

\* [ok, err, val]: the value, or the error thrown.
decryptResult(encryptedData, decompressFlag) ==
  IF ~isInitialized
  THEN [ok |-> FALSE, err |-> "NotInitialized", val |-> JNull]
  ELSE IF masterKey = NoKey
  THEN [ok |-> FALSE, err |-> "TypeError", val |-> JNull]
  ELSE IF ~AesGcmOpens(masterKey, encryptedData)
  THEN [ok |-> FALSE, err |-> "OperationError", val |-> JNull]
  ELSE [ok |-> TRUE, err |-> "",
        val |-> Decoded(encryptedData.pt, decompressFlag)]

\* generateIV (lines 567-571): twelve random bytes.
generateIV == IVs

encrypt(data, compressFlag) ==
  /\ \E iv \in generateIV :
       LET r == encryptResult(data, compressFlag, iv)
           c == [Call("encrypt") EXCEPT !.v = data, !.flag = compressFlag,
                                        !.env = r.env] IN
       last' = IF r.ok THEN Returned(c, JNull) ELSE Thrown(c, r.err)
  /\ UNCHANGED <<localStorage, isInitialized, masterKey, pending, history, lz, sessions,
                 isLocked, auth>>

\* The strings a caller has to hand to decrypt: the envelope encrypt just
\* returned and the stored items, as they are or with bits flipped.
HeldEnvelopes ==
  {e \in {last.env} \cup {localStorage[n] : n \in StorageNames} : e.kind # "none"}

Tampered(e) ==
  {e} \cup (IF e.kind = "env"
            THEN {FlipCiphertextBit(e)} \cup {FlipNonceBits(e, iv) : iv \in IVs}
            ELSE {})

decrypt(encryptedData, decompressFlag) ==
  /\ LET r == decryptResult(encryptedData, decompressFlag)
         c == [Call("decrypt") EXCEPT !.flag = decompressFlag,
                                      !.env = encryptedData] IN
     last' = IF r.ok THEN Returned(c, r.val) ELSE Thrown(c, r.err)
  /\ UNCHANGED <<localStorage, isInitialized, masterKey, pending, history, lz, sessions,
                 isLocked, auth>>

(***************************************************************************)
(* The secure key-value store (lines 793-844).                             *)
(***************************************************************************)
\* secureStore up to its await: encrypt(value, true) throws, or suspends.
secureStoreCall(key, value) ==
  /\ \E iv \in generateIV :
       LET r == encryptResult(value, TRUE, iv) IN
       IF r.ok
       THEN /\ pending' = Append(pending,
                 [NoPending EXCEPT !.op = "secureStore", !.k = key,
                                   !.v = value, !.env = r.env])
            /\ UNCHANGED last
       ELSE \* the catch returns false
            /\ last' = [Returned(Call("secureStore"), JBool(FALSE))
                          EXCEPT !.k = key, !.v = value, !.err = r.err]
            /\ UNCHANGED pending
  /\ UNCHANGED <<localStorage, isInitialized, masterKey, history, lz, sessions,
                 isLocked, auth>>

secureStore(key, value) ==
  /\ Len(pending) < MaxPending
  /\ secureStoreCall(key, value)

\* secureStore with a removeItem in its catch: a failed write empties the slot.
secureStoreResume_clearsOnFailure ==
  \E i \in 1..Len(pending), quotaExceeded \in BOOLEAN :
    LET p == pending[i]
        c == [Call("secureStore") EXCEPT !.k = p.k, !.v = p.v, !.env = p.env] IN
    /\ p.op = "secureStore"
    /\ IF quotaExceeded
       THEN /\ last' = [Returned(c, JBool(FALSE)) EXCEPT !.err = "QuotaExceededError"]
            /\ localStorage' = [localStorage EXCEPT ![SecName(p.k)] = NoItem]
            /\ pending' = RemoveAt(pending, i)
            /\ UNCHANGED history
       ELSE /\ localStorage' = [localStorage EXCEPT ![SecName(p.k)] = p.env]
            /\ pending' = Overtake(RemoveAt(pending, i), i - 1, p.k)
            /\ history' = [history EXCEPT !.deleted = @ \ {p.k}]
            /\ last' = Returned(c, JBool(TRUE))
    /\ UNCHANGED <<isInitialized, masterKey, lz, sessions,
                 isLocked, auth>>

\* Line 796 on: setItem writes the envelope, or throws (the quota).
secureStoreResume ==
  \E i \in 1..Len(pending), quotaExceeded \in BOOLEAN :
    LET p == pending[i]
        c == [Call("secureStore") EXCEPT !.k = p.k, !.v = p.v, !.env = p.env] IN
    /\ p.op = "secureStore"
    /\ IF quotaExceeded
       THEN /\ last' = [Returned(c, JBool(FALSE)) EXCEPT !.err = "QuotaExceededError"]
            /\ pending' = RemoveAt(pending, i)
            /\ UNCHANGED <<localStorage, history>>
       ELSE /\ localStorage' = [localStorage EXCEPT ![SecName(p.k)] = p.env]
            /\ pending' = Overtake(RemoveAt(pending, i), i - 1, p.k)
            /\ history' = [history EXCEPT !.deleted = @ \ {p.k}]
            /\ last' = Returned(c, JBool(TRUE))
    /\ UNCHANGED <<isInitialized, masterKey, lz, sessions,
                 isLocked, auth>>

\* secureRetrieve: null for no entry, the decrypted value, or null again
\* from the catch (err then names the error that was swallowed).
secureRetrieve(key) ==
  /\ LET encrypted == localStorage[SecName(key)]
         r == decryptResult(encrypted, TRUE)
         c == [Call("secureRetrieve") EXCEPT !.k = key, !.env = encrypted] IN
     last' = IF encrypted.kind = "none" THEN Returned(c, JNull)
             ELSE IF r.ok THEN Returned(c, r.val)
             ELSE [Returned(c, JNull) EXCEPT !.err = r.err]
  /\ UNCHANGED <<localStorage, isInitialized, masterKey, pending, history, lz, sessions,
                 isLocked, auth>>

\* secureDelete without the removeItem of line 837: the random bytes stay.
secureDelete_overwriteOnly(key) ==
  /\ \E quotaExceeded \in BOOLEAN :
       LET c == [Call("secureDelete") EXCEPT !.k = key,
                                             !.env = localStorage[SecName(key)]] IN
       IF quotaExceeded
       THEN /\ last' = [Returned(c, JBool(FALSE)) EXCEPT !.err = "QuotaExceededError"]
            /\ UNCHANGED <<localStorage, history, pending>>
       ELSE /\ localStorage' = [localStorage EXCEPT ![SecName(key)] = RandomItem]
            /\ pending' = Overtake(pending, Len(pending), key)
            /\ history' = [history EXCEPT !.deleted = @ \cup {key}]
            /\ last' = [Returned(c, JBool(TRUE)) EXCEPT !.writes = <<RandomItem>>]
  /\ UNCHANGED <<isInitialized, masterKey, lz, sessions,
                 isLocked, auth>>

\* secureDelete is synchronous: the overwrite with random bytes (setItem,
\* which may throw) and then the removal.  writes is what the call put in
\* the slot, in order: the random bytes of line 834, the absence of 837.
secureDelete(key) ==
  /\ \E quotaExceeded \in BOOLEAN :
       LET c == [Call("secureDelete") EXCEPT !.k = key,
                                             !.env = localStorage[SecName(key)]] IN
       IF quotaExceeded
       THEN /\ last' = [Returned(c, JBool(FALSE)) EXCEPT !.err = "QuotaExceededError"]
            /\ UNCHANGED <<localStorage, history, pending>>
       ELSE /\ localStorage' = [localStorage EXCEPT ![SecName(key)] = NoItem]
            /\ pending' = Overtake(pending, Len(pending), key)
            /\ history' = [history EXCEPT !.deleted = @ \cup {key}]
            /\ last' = [Returned(c, JBool(TRUE))
                          EXCEPT !.writes = <<RandomItem, NoItem>>]
  /\ UNCHANGED <<isInitialized, masterKey, lz, sessions,
                 isLocked, auth>>

(***************************************************************************)
(* The collaborators (src/unnamed/part_006) and the page.                  *)
(***************************************************************************)
\* lockDevice -> clearSensitiveData (lines 366-380, 426-435): the key is
\* set to null; isInitialized is left as it is.
lockDevice ==
  /\ isLocked' = TRUE
  /\ masterKey' = NoKey
  /\ last' = Call("lockDevice")
  /\ UNCHANGED <<localStorage, isInitialized, pending, history, lz, sessions,
                 auth>>

\* remoteWipe (lines 399-424): localStorage.clear().
remoteWipe ==
  /\ localStorage' = [n \in StorageNames |-> NoItem]
  /\ history' = [history EXCEPT !.deleted = {}]
  /\ last' = Call("remoteWipe")
  /\ UNCHANGED <<isInitialized, masterKey, pending, lz, sessions,
                 isLocked, auth>>

\* unlockDevice (lines 382-397): the password is compared with the stored
\* master_password_hash; a valid one clears isLocked.  The engine is not
\* touched.
unlockDevice ==
  /\ \E isValid \in BOOLEAN :
       /\ isLocked' = IF isValid THEN FALSE ELSE isLocked
       /\ last' = Returned(Call("unlockDevice"), JBool(isValid))
  /\ UNCHANGED <<localStorage, isInitialized, masterKey, pending, history, lz,
                 sessions, auth>>

(***************************************************************************)
(* UserAuthenticationSystem (src/auth-system.js): its sessions.            *)
(***************************************************************************)
SessionIds == 1..NumSessions

\* createSession (lines 207-227), the end of a login.
createSession ==
  /\ \E sessionId \in SessionIds : sessions' = sessions \cup {sessionId}
  /\ UNCHANGED <<localStorage, isInitialized, masterKey, pending, last, history,
                 lz, isLocked, auth>>

\* logout (lines 192-202)
logout(sessionId) ==
  /\ sessions' = sessions \ {sessionId}
  /\ last' = [Returned(Call("logout"), JBool(sessionId \in sessions))
                EXCEPT !.k = sessionId]
  /\ UNCHANGED <<localStorage, isInitialized, masterKey, pending, history, lz,
                 isLocked, auth>>

\* A page load: the scripts run again and construct a new engine (lines
\* 512-525, 955) and a new UserAuthenticationSystem.  The storage stays;
\* suspended calls of the old page die.
Reload ==
  /\ history.gen < MaxReloads
  /\ isInitialized' = FALSE
  /\ masterKey' = NoKey
  /\ pending' = <<>>
  /\ history' = [history EXCEPT !.gen = @ + 1, !.initPw = 0, !.initSalt = 0]
  /\ last' = NoCall
  /\ sessions' = {}
  /\ isLocked' = FALSE
  /\ auth' = [NoAuth EXCEPT !.now = auth.now]
  /\ UNCHANGED <<localStorage, lz>>

Next ==
  \/ \E pw \in Passphrases : initialize(pw)
  \/ initializeResume
  \/ \E v \in Values, c \in BOOLEAN : encrypt(v, c)
  \/ \E h \in HeldEnvelopes : \E e \in Tampered(h), d \in BOOLEAN : decrypt(e, d)
  \/ \E k \in StoreKeys, v \in Values : secureStore(k, v)
  \/ secureStoreResume
  \/ \E k \in StoreKeys : secureRetrieve(k)
  \/ \E k \in StoreKeys : secureDelete(k)
  \/ lockDevice
  \/ unlockDevice
  \/ remoteWipe
  \/ Reload

Spec == Init /\ [][Next]_vars

(***************************************************************************)
(* Backup and restore (lines 915-951), beside initialize, the store and    *)
(* encrypt of hand-made packages.                                          *)
(***************************************************************************)
\* Lines 916-921: the sec_ entries of the storage, from key k on.
RECURSIVE SecureData(_)
SecureData(k) ==
  IF k > NumKeys THEN <<>>
  ELSE (IF localStorage[SecName(k)].kind = "none" THEN <<>>
        ELSE <<Member(KeyText(SecName(k)),
                      JStr(ItemText(localStorage[SecName(k)])))>>)
       \o SecureData(k + 1)

\* Lines 923-927.
Backup(timestamp) ==
  JObj(<<Member(TxtVersion, JStr(version)),
         Member(TxtTimestamp, JStr(timestamp)),
         Member(TxtData, JObj(SecureData(1)))>>)

\* Line 929: encrypt(backup, true), as encryptResult on a value outside the
\* table; processedData is ProcessData(backup, TRUE).
encryptBackup(c, backup, processedData, iv) ==
  IF ~isInitialized THEN Thrown(c, "NotInitialized")
  ELSE IF ~processedData.ok THEN Thrown(c, processedData.err)
  ELSE IF masterKey = NoKey THEN Thrown(c, "TypeError")
  ELSE Returned([c EXCEPT !.env =
         Envelope(iv, masterKey, Utf8Encode(processedData.s), backup, TRUE,
                  history.gen)], JNull)

\* createBackup has no try: what encrypt(backup, true) throws, it throws.
createBackup ==
  /\ \E iv \in generateIV, timestamp \in Timestamps :
       last' = encryptBackup(
                 [Call("createBackup") EXCEPT !.v = Backup(timestamp), !.flag = TRUE],
                 Backup(timestamp), ProcessData(Backup(timestamp), TRUE), iv)
  /\ UNCHANGED <<localStorage, isInitialized, masterKey, pending, history, lz, sessions,
                 isLocked, auth>>

\* backup.data of the decrypted value: undefined when the value has no
\* such property.
HasData(backup) ==
  /\ backup.t = "obj"
  /\ \E i \in 1..Len(backup.items) : backup.items[i].k = TxtData
DataOf(backup) ==
  backup.items[CHOOSE i \in 1..Len(backup.items) :
                 /\ backup.items[i].k = TxtData
                 /\ \A j \in (i + 1)..Len(backup.items) : backup.items[j].k # TxtData].v

\* Object.entries(backup.data): the members of an object; of a primitive
\* or an array, entries whose keys are indices or none (not tracked).
EntriesOf(data) == IF data.t = "obj" THEN data.items ELSE <<>>

\* The string setItem stores for a value.
ValueText(v) == IF v.t = "obj" THEN TxtObject ELSE StringOf(v)

\* Lines 941-943: setItem of the entries i..n, in order.
RECURSIVE WriteEntries(_, _, _, _)
WriteEntries(store, entries, i, n) ==
  IF i > n THEN store
  ELSE WriteEntries(
         IF NameOfKey(entries[i].k) = Untracked THEN store
         ELSE [store EXCEPT ![NameOfKey(entries[i].k)] = TextItem(ValueText(entries[i].v))],
         entries, i + 1, n)

\* restoreBackup: decrypt(backupData, true), then one setItem per entry of
\* backup.data, whatever its key; any throw (decrypt, no data, the quota at
\* some setItem) ends in the catch, which returns false.
restoreBackup(backupData) ==
  /\ LET r == decryptResult(backupData, TRUE)
         c == [Call("restoreBackup") EXCEPT !.env = backupData, !.flag = TRUE] IN
     IF ~r.ok
     THEN /\ last' = [Returned(c, JBool(FALSE)) EXCEPT !.err = r.err]
          /\ UNCHANGED localStorage
     ELSE IF ~HasData(r.val) \/ DataOf(r.val).t = "null"
     THEN /\ last' = [Returned(c, JBool(FALSE)) EXCEPT !.err = "TypeError"]
          /\ UNCHANGED localStorage
     ELSE \E written \in 0..Len(EntriesOf(DataOf(r.val))) :
            /\ localStorage' =
                 WriteEntries(localStorage, EntriesOf(DataOf(r.val)), 1, written)
            /\ last' =
                 IF written = Len(EntriesOf(DataOf(r.val)))
                 THEN Returned(c, JBool(TRUE))
                 ELSE [Returned(c, JBool(FALSE)) EXCEPT !.err = "QuotaExceededError"]
  /\ UNCHANGED <<isInitialized, masterKey, pending, history, lz, sessions,
                 isLocked, auth>>

NextBackup ==
  \/ \E pw \in Passphrases : initialize(pw)
  \/ initializeResume
  \/ \E v \in BackupValues, c \in BOOLEAN : encrypt(v, c)
  \/ \E k \in StoreKeys : secureStore(k, VNum7)
  \/ secureStoreResume
  \/ \E k \in StoreKeys : secureDelete(k)
  \/ createBackup
  \/ \E h \in HeldEnvelopes : restoreBackup(h)
  \/ remoteWipe

SpecBackup == Init /\ [][NextBackup]_vars

(***************************************************************************)
(* secureStore and secureDelete calls invoked without awaiting one         *)
(* another: up to MaxOverlap secureStore calls suspended at one time.      *)
(***************************************************************************)
NextRace ==
  \/ \E pw \in Passphrases : initialize(pw)
  \/ initializeResume
  \/ \E k \in StoreKeys, v \in RaceValues :
       Len(pending) < MaxOverlap /\ secureStoreCall(k, v)
  \/ secureStoreResume
  \/ \E k \in StoreKeys : secureRetrieve(k)
  \/ \E k \in StoreKeys : secureDelete(k)

SpecRace == Init /\ [][NextRace]_vars

(***************************************************************************)
(* Overlapping initialize calls: up to MaxOverlap of them suspended at one *)
(* time, beside the store, the wipe and the page load.                     *)
(***************************************************************************)
NextOverlap ==
  \/ \E pw \in Passphrases : Len(pending) < MaxOverlap /\ initializeCall(pw)
  \/ initializeResume
  \/ \E k \in StoreKeys, v \in Values : secureStore(k, v)
  \/ secureStoreResume
  \/ \E k \in StoreKeys : secureDelete(k)
  \/ remoteWipe
  \/ Reload

SpecOverlap == Init /\ [][NextOverlap]_vars

(***************************************************************************)
(* The engine beside the sessions and the device lock.                     *)
(***************************************************************************)
NextSession ==
  \/ \E pw \in Passphrases : initialize(pw)
  \/ initializeResume
  \/ lockDevice
  \/ unlockDevice
  \/ createSession
  \/ \E id \in SessionIds : logout(id)
  \/ Reload

SpecSession == Init /\ [][NextSession]_vars

(***************************************************************************)
(* The codec on its own: compress(s) and then decompress of its result,    *)
(* for every string s over CodecAlphabet of at most MaxLen characters.     *)
(* lz.c is what compress returned or threw, lz.d what decompress returned. *)
(***************************************************************************)
CodecAlphabet == {0, 97, 98, 255}
CodecStrings == UNION {[1..n -> CodecAlphabet] : n \in 0..MaxLen}

InitCodec ==
  /\ localStorage = [n \in StorageNames |-> NoItem]
  /\ isInitialized = FALSE
  /\ masterKey = NoKey
  /\ pending = <<>>
  /\ last = NoCall
  /\ history = [gen |-> 0, initPw |-> 0, initSalt |-> 0, deleted |-> {}]
  /\ lz \in {[phase |-> "idle", s |-> s, c |-> Ok(<<>>), d |-> <<>>] :
               s \in CodecStrings}
  /\ sessions = {}
  /\ isLocked = FALSE
  /\ auth = NoAuth

CallCompress ==
  /\ lz.phase = "idle"
  /\ lz' = [lz EXCEPT !.phase = "compressed", !.c = compress(lz.s)]
  /\ UNCHANGED <<localStorage, isInitialized, masterKey, pending, last, history,
                 sessions,
                 isLocked, auth>>

CallDecompress ==
  /\ lz.phase = "compressed"
  /\ lz.c.ok
  /\ lz' = [lz EXCEPT !.phase = "decompressed", !.d = decompress(lz.c.s)]
  /\ UNCHANGED <<localStorage, isInitialized, masterKey, pending, last, history,
                 sessions,
                 isLocked, auth>>

\* decompress called on the string itself, as on a stored text that compress
\* did not make; it has no throwing path, so it always ends in "decoded".
CallDecompressRaw ==
  /\ lz.phase = "idle"
  /\ lz' = [lz EXCEPT !.phase = "decoded", !.d = decompress(lz.s)]
  /\ UNCHANGED <<localStorage, isInitialized, masterKey, pending, last, history,
                 sessions,
                 isLocked, auth>>

NextCodec == CallCompress \/ CallDecompress \/ CallDecompressRaw

SpecCodec == InitCodec /\ [][NextCodec]_vars

(***************************************************************************)
(* Properties.                                                             *)
(***************************************************************************)
\* The envelope is as encrypt returned it: no bit of it was changed.
Unmodified(e) == e.kind = "env" /\ e.intact /\ e.iv = e.aiv

\* C1 (as the specification states it): on a Ready engine every encrypt
\* returns an envelope, and decrypt of an unmodified envelope of the current
\* key, with the flag it was made with, returns the value that was encrypted.
C1_RoundTrip ==
  /\ (last.op = "encrypt" /\ Ready) => last.outcome = "returned"
  /\ (/\ last.op = "decrypt"
      /\ Ready
      /\ Unmodified(last.env)
      /\ last.env.key = masterKey
      /\ last.flag = last.env.cflag)
     => (last.outcome = "returned" /\ last.val = last.env.src)

\* C2 (as the specification states it): compress returns a code stream for
\* every string over the byte range, the empty one included, and decompress
\* of that stream is the string.
C2_CompressRoundTrip ==
  /\ lz.phase # "idle" => lz.c.ok
  /\ lz.phase = "decompressed" => lz.d = lz.s

\* C3 (as the specification states it): on an initialized engine with its
\* key in memory, a secureStore that the storage quota did not stop reports
\* success, and a secureRetrieve of the key right after it returns the value.
C3_StoreThenRetrieve ==
  [][/\ (/\ last'.op = "secureStore"
         /\ Ready'
         /\ last'.err # "QuotaExceededError")
        => last'.val = JBool(TRUE)
     /\ (/\ last.op = "secureStore"
         /\ last.err # "QuotaExceededError"
         /\ Ready
         /\ last'.op = "secureRetrieve"
         /\ last'.k = last.k)
        => last'.val = last.v]_vars

\* C4: the key of an initialized engine is the key derived from the
\* passphrase it was given and the salt persisted under enc_salt, whichever
\* instance persisted it; so decrypt and secureRetrieve open every
\* unmodified envelope that was sealed under that passphrase and that salt,
\* by this instance or another, and return its decoded plaintext.
C4_KeyDeterministic ==
  /\ Ready => masterKey = [pw |-> history.initPw, salt |-> history.initSalt]
  /\ (/\ last.op \in {"decrypt", "secureRetrieve"}
      /\ Ready
      /\ Unmodified(last.env)
      /\ last.env.key.pw = history.initPw
      /\ last.env.key.salt = history.initSalt)
     => (/\ last.outcome = "returned"
         /\ last.err = ""
         /\ last.val = Decoded(last.env.pt, last.op = "secureRetrieve" \/ last.flag))

\* C4 witness: a fresh instance (after a page load) retrieves the value a
\* record sealed by the instance before it holds.
C4_Witness ==
  /\ history.gen = 1
  /\ last.op = "secureRetrieve"
  /\ last.env.kind = "env"
  /\ last.env.gen = 0
  /\ last.val = VNum7
  /\ last.env.src = VNum7

\* C5 (as the specification states it): when a slot holds a record and a
\* further secureStore to it has completed (not stopped by the quota), the
\* secureRetrieve that follows returns the value of that last secureStore.
C5_LastWriteWins ==
  [][(/\ last.op = "secureStore"
      /\ last.err # "QuotaExceededError"
      /\ Ready
      /\ last'.op = "secureRetrieve"
      /\ last'.k = last.k
      /\ last'.env.kind = "env")
     => last'.val = last.v]_vars

C7_AbsentOnlyWhenNeverStored ==
  (last.op = "secureRetrieve" /\ last.outcome = "returned" /\ last.val = JNull)
    => last.env.kind = "none"

\* C8: decrypt returns a value only for an unmodified envelope sealed under
\* the key the engine holds, and that value is its decoded plaintext; every
\* other input (a bit of ciphertext, tag or nonce changed, another
\* passphrase or salt, no envelope at all) makes it throw, returning nothing.
C8_DecryptAuthenticates ==
  /\ (last.op = "decrypt" /\ last.outcome = "returned")
     => (/\ Ready
         /\ Unmodified(last.env)
         /\ last.env.key = masterKey
         /\ last.val = Decoded(last.env.pt, last.flag))
  /\ (last.op = "decrypt" /\ ~(Unmodified(last.env) /\ last.env.key = masterKey))
     => (last.outcome = "thrown" /\ last.err # "" /\ last.val = JNull)

\* C8 witness: decrypt has thrown on an unmodified envelope sealed under
\* another passphrase with the salt of the current key.
C8_Witness ==
  /\ last.op = "decrypt"
  /\ Ready
  /\ Unmodified(last.env)
  /\ last.env.key.salt = masterKey.salt
  /\ last.env.key.pw # masterKey.pw
  /\ last.outcome = "thrown"
  /\ last.err = "OperationError"

\* C9 (as the specification states it): two encrypt calls under one key
\* never use the same nonce.  (The step is the return of a second encrypt,
\* of another value or flag: last changes.)
C9_NoncesDistinct ==
  [][(/\ last.op = "encrypt"
      /\ last.outcome = "returned"
      /\ last' # last
      /\ last'.op = "encrypt"
      /\ last'.outcome = "returned"
      /\ last'.env.key = last.env.key)
     => last'.env.iv # last.env.iv]_vars

\* C10: while no initialize of the instance has returned true, encrypt and
\* decrypt throw the not-initialized error and return no envelope and no
\* value, secureStore returns false, and no step writes a sec_ entry (an
\* entry changes only by being removed).
C10_NotInitialized ==
  [][history'.initPw = 0 =>
       /\ last'.op \in {"encrypt", "decrypt"}
          => (/\ last'.outcome = "thrown"
              /\ last'.err = "NotInitialized"
              /\ last'.val = JNull
              /\ (last'.op = "encrypt" => last'.env = NoItem))
       /\ last'.op = "secureStore"
          => (last'.val = JBool(FALSE) /\ last'.err = "NotInitialized")
       /\ history.initPw = 0
          => \A k \in StoreKeys :
               localStorage'[SecName(k)] \in {localStorage[SecName(k)], NoItem}]_vars

\* C10 witness: a fresh instance, not yet initialized, was given a stored
\* envelope to decrypt and threw.
C10_Witness ==
  /\ history.initPw = 0
  /\ last.op = "decrypt"
  /\ last.env.kind = "env"
  /\ last.outcome = "thrown"

\* C11: the engine becomes Ready only in the step in which an initialize
\* call returns true; an engine that is not initialized holds no key, and
\* stays so when an initialize call returns false; and a call goes on to
\* derive a key only once enc_salt holds the salt the key is derived from.
C11_ReadyOnlyBySuccess ==
  [][/\ (~Ready /\ Ready')
        => (last'.op = "initialize" /\ last'.val = JBool(TRUE))
     /\ ~isInitialized' => masterKey' = NoKey
     /\ (~isInitialized /\ last'.op = "initialize" /\ last'.val = JBool(FALSE))
        => (~isInitialized' /\ masterKey' = NoKey)
     /\ (/\ Len(pending') > Len(pending)
         /\ pending'[Len(pending')].op = "initialize")
        => localStorage'[SaltName] = SaltItem(pending'[Len(pending')].key.salt)]_vars

\* C11 witness: on an engine that was never initialized, initialize has
\* returned false with no salt persisted; the engine has no key.
C11_Witness ==
  /\ last.op = "initialize"
  /\ last.val = JBool(FALSE)
  /\ history.initPw = 0
  /\ localStorage[SaltName] = NoItem
  /\ ~isInitialized
  /\ masterKey = NoKey

\* C12: within one instance, a Ready engine stops being Ready only in a
\* lockDevice step, and that step leaves it uninitialized with no key; an
\* encrypt (without compression) or decrypt called while the engine is not
\* Ready is rejected with the not-initialized error.
C12_LeavesReadyOnlyByLock ==
  [][history'.gen = history.gen =>
       /\ (Ready /\ ~Ready')
          => (last'.op = "lockDevice" /\ ~isInitialized' /\ masterKey' = NoKey)
       /\ (/\ ~Ready'
           /\ last' # last
           /\ last'.op \in {"encrypt", "decrypt"}
           /\ ~last'.flag)
          => (last'.outcome = "thrown" /\ last'.err = "NotInitialized")]_vars

\* C13: after lockDevice, and after a logout that returned success, the
\* engine holds no master key.
C13_KeyDestroyedOnLockAndLogout ==
  (\/ last.op = "lockDevice"
   \/ (last.op = "logout" /\ last.val = JBool(TRUE)))
  => masterKey = NoKey

\* C14: once enc_salt is persisted, no step of any operation changes or
\* removes it.
C14_SaltNeverChanges ==
  [][localStorage[SaltName].kind # "none"
     => localStorage'[SaltName] = localStorage[SaltName]]_vars

\* C15: a step of an initialize call (its synchronous part, or its return)
\* changes the storage at most by creating enc_salt: no sec_ entry changes,
\* a salt already stored is left as it is, and when the call suspends on
\* the key derivation enc_salt holds the salt the key is derived from, the
\* same salt as that of every suspended call that read the stored one.
C15_InitializeFrame ==
  [][(\/ (/\ Len(pending') > Len(pending)
          /\ pending'[Len(pending')].op = "initialize")
      \/ (/\ last'.op = "initialize"
          /\ (last' # last \/ Len(pending') < Len(pending))))
     => /\ \A k \in StoreKeys : localStorage'[SecName(k)] = localStorage[SecName(k)]
        /\ localStorage[SaltName].kind # "none"
           => localStorage'[SaltName] = localStorage[SaltName]
        /\ localStorage[SaltName].kind = "none"
           => localStorage'[SaltName] \in {NoItem} \cup {SaltItem(s) : s \in Salts}
        /\ (/\ Len(pending') > Len(pending)
            /\ pending'[Len(pending')].op = "initialize")
           => /\ localStorage'[SaltName] =
                   SaltItem(pending'[Len(pending')].key.salt)
              /\ \A i \in 1..Len(pending) :
                   (/\ pending[i].op = "initialize"
                    /\ localStorage[SaltName] = SaltItem(pending[i].key.salt))
                   => pending'[Len(pending')].key.salt = pending[i].key.salt]_vars

\* C15 witness: on the first run two initialize calls overlap, both
\* suspended on the derivation from the one persisted salt.
C15_Witness ==
  /\ history.gen = 0
  /\ history.initPw = 0
  /\ Len(pending) = 2
  /\ pending[1].op = "initialize"
  /\ pending[2].op = "initialize"
  /\ pending[1].pw # pending[2].pw
  /\ pending[1].key.salt = pending[2].key.salt
  /\ localStorage[SaltName] = SaltItem(pending[1].key.salt)

\* C16: what secureStore has put in a sec_ slot is a record of two fields,
\* the envelope and the compression flag (an item of kind "record"), never
\* the bare envelope string (kind "env"); and secureRetrieve returns what
\* decrypt gives for the envelope with the flag encrypt sealed it with.
C16_RecordHoldsFlag ==
  /\ (last.op = "secureStore" /\ last.val = JBool(TRUE))
     => localStorage[SecName(last.k)].kind = "record"
  /\ (last.op = "secureRetrieve" /\ last.env.kind = "env" /\ last.err = "")
     => last.val = Decoded(last.env.pt, last.env.cflag)

\* C17: decompress returns a string only for a well-formed stream: its
\* input is valid base64 and the decoded code stream is not empty (a code
\* above 255 cannot come out of atob).
C17_MalformedRaises ==
  lz.phase = "decoded" => (atob(lz.s).ok /\ Len(atob(lz.s).s) > 0)

\* C18: for a non-empty input every code compress pushes to its output is
\* in 0..255, and compress returns a string.
C18_CodesAreBytes ==
  (lz.phase = "compressed" /\ Len(lz.s) > 0)
  => /\ \A i \in 1..Len(CompressCodes(lz.s)) : CompressCodes(lz.s)[i] \in 0..255
     /\ lz.c.ok

\* C19: a secureDelete that returned true on a slot holding an envelope
\* wrote to the slot, in this order, random bytes and then its removal, and
\* the text of the random bytes and the envelope's are of comparable
\* length: neither is more than twice as long as the other.
C19_OverwriteThenRemove ==
  (last.op = "secureDelete" /\ last.val = JBool(TRUE) /\ last.env.kind = "env")
  => /\ Len(last.writes) = 2
     /\ last.writes[1].kind = "rand"
     /\ last.writes[2].kind = "none"
     /\ ItemLength(last.writes[1]) <= 2 * ItemLength(last.env)
     /\ ItemLength(last.env) <= 2 * ItemLength(last.writes[1])

\* C20: on a Ready engine createBackup returns an envelope, whose value is
\* the package holding every sec_ entry of the storage; and restoreBackup
\* of such an envelope, unmodified and under the key that sealed it,
\* returns true and leaves every sec_ entry of the package as it was when
\* the backup was made.
C20_BackupRoundTrip ==
  /\ (last.op = "createBackup" /\ Ready)
     => (/\ last.outcome = "returned"
         /\ last.env.kind = "env"
         /\ \E timestamp \in Timestamps : last.env.src = Backup(timestamp))
  /\ (/\ last.op = "restoreBackup"
      /\ Ready
      /\ Unmodified(last.env)
      /\ last.env.key = masterKey
      /\ HasData(last.env.src)
      /\ \E i \in 1..Len(last.env.src.items) : last.env.src.items[i].k = TxtVersion)
     => (/\ last.val = JBool(TRUE)
         /\ \A i \in 1..Len(DataOf(last.env.src).items) :
              LET e == DataOf(last.env.src).items[i] IN
              NameOfKey(e.k) # Untracked
              => ItemText(localStorage[NameOfKey(e.k)]) = e.v.s)

\* C21: a step in which secureStore returns false (from its synchronous
\* part, or on resuming from the await) leaves the whole storage and the
\* engine as they were; and a sec_ slot holds nothing or a whole envelope as
\* encrypt made it, never a part of one.
C21_StoreAtomic ==
  [][/\ (/\ last'.op = "secureStore"
         /\ last'.val = JBool(FALSE)
         /\ (last' # last \/ Len(pending') < Len(pending)))
        => (/\ localStorage' = localStorage
            /\ masterKey' = masterKey
            /\ isInitialized' = isInitialized)
     /\ \A k \in StoreKeys :
          \/ localStorage'[SecName(k)] = NoItem
          \/ Unmodified(localStorage'[SecName(k)])]_vars

\* C21 witness: a secureStore on a slot that holds an envelope failed at the
\* storage write; the envelope is still in the slot.
C21_Witness ==
  /\ last.op = "secureStore"
  /\ last.val = JBool(FALSE)
  /\ last.err = "QuotaExceededError"
  /\ Unmodified(localStorage[SecName(last.k)])
  /\ localStorage[SecName(last.k)] # last.env

\* C22: within one instance, no secureStore is suspended in the step in
\* which the key is cleared or replaced, and a secureStore that writes its
\* envelope on resuming does so while the engine holds the key that sealed it.
C22_LockExcludesInFlight ==
  [][history'.gen = history.gen =>
       /\ (masterKey # NoKey /\ masterKey' # masterKey)
          => \A i \in 1..Len(pending) : pending[i].op # "secureStore"
       /\ (/\ Len(pending') < Len(pending)
           /\ last'.op = "secureStore"
           /\ last'.val = JBool(TRUE))
          => masterKey = last'.env.key]_vars

\* C25: a restoreBackup that returns false has changed no sec_ entry, and
\* one that returns true has written every entry of the package whose slot
\* the model holds.
C25_RestoreAllOrNothing ==
  [][(last'.op = "restoreBackup" /\ last' # last)
     => /\ last'.val = JBool(FALSE)
           => \A k \in StoreKeys : localStorage'[SecName(k)] = localStorage[SecName(k)]
        /\ last'.val = JBool(TRUE)
           => \A i \in 1..Len(EntriesOf(DataOf(last'.env.src))) :
                LET e == EntriesOf(DataOf(last'.env.src))[i] IN
                NameOfKey(e.k) # Untracked
                => ItemText(localStorage'[NameOfKey(e.k)]) = ValueText(e.v)]_vars

\* A string compress returns for some text of the model.
IsCompressOutput(s) ==
  \E t \in CodecStrings : compress(t).ok /\ compress(t).s = s

\* C26: decompress of a string that compress did not produce returns the
\* string itself.
C26_LegacyPassThrough ==
  (lz.phase = "decoded" /\ ~IsCompressOutput(lz.s)) => lz.d = lz.s

\* C27: the slot ends as the call invoked last leaves it: a secureStore
\* never writes its envelope after a secureDelete or a secureStore on the
\* same key that was invoked later than it has completed.
C27_LastInvokedWins ==
  [][\A i \in 1..Len(pending) :
       (/\ pending[i].op = "secureStore"
        /\ Len(pending') < Len(pending)
        /\ last'.op = "secureStore"
        /\ last'.val = JBool(TRUE)
        /\ last'.env = pending[i].env
        /\ pending' = Overtake(RemoveAt(pending, i), i - 1, pending[i].k))
       => ~pending[i].overtaken]_vars

\* C30: a restoreBackup step changes no entry outside the sec_ namespace:
\* enc_salt is after the step what it was before.
C30_RestoreWritesOnlySec ==
  [][last'.op = "restoreBackup"
     => localStorage'[SaltName] = localStorage[SaltName]]_vars


\* C28: in every reachable state where SecuritySystem.isLocked is true, the
\* engine's masterKey is null.
C28_LockedHasNoKey == isLocked => masterKey = NoKey


(***************************************************************************)
(* UserAuthenticationSystem.login (src/auth-system.js lines 131-187) for   *)
(* one email, with the clock.  auth.now is Date.now() in milliseconds;     *)
(* auth.loginAttempts is the entry of the loginAttempts map for the email  *)
(* (has = FALSE: no entry); auth.logins are the login calls suspended at   *)
(* an await, in call order.                                                *)
(***************************************************************************)
maxLoginAttempts == 5
lockoutMs == 900000
TickMs == 300000
MaxNow == 1200000
MaxLogins == 2
MaxCount == 6

\* Time passes.
Tick ==
  /\ auth.now < MaxNow
  /\ auth' = [auth EXCEPT !.now = @ + TickMs]
  /\ UNCHANGED <<localStorage, isInitialized, masterKey, pending, last, history,
                 lz, sessions, isLocked>>

\* isRateLimited (lines 483-490)
isRateLimited(a) ==
  /\ a.loginAttempts.has
  /\ a.loginAttempts.count >= maxLoginAttempts
  /\ a.now - a.loginAttempts.lastAttempt < lockoutMs

\* recordLoginAttempt(email, false) (lines 492-505)
recordLoginAttempt(a) ==
  [has |-> TRUE, count |-> a.loginAttempts.count + 1, lastAttempt |-> a.now]

\* loginAttempts.delete(email) (line 176)
NoAttempts == [has |-> FALSE, count |-> 0, lastAttempt |-> 0]

NoLogin == [at |-> "none", isValidPassword |-> FALSE, sessionId |-> 0]

\* login up to its first await (lines 131-148): the rate-limit test, the
\* user lookup, and the call of verifyPassword.  Users are as register
\* leaves them (line 89: mfaEnabled false), so lines 155-171 are skipped.
login(isValidPassword) ==
  /\ Len(auth.logins) < MaxLogins
  /\ auth.loginAttempts.count < MaxCount
  /\ IF isRateLimited(auth)
     THEN /\ last' = Thrown(Call("login"), "TooManyAttempts")
          /\ UNCHANGED auth
     ELSE IF ~auth.registered
     THEN /\ auth' = [auth EXCEPT !.loginAttempts = recordLoginAttempt(auth)]
          /\ last' = Thrown(Call("login"), "InvalidCredentials")
     ELSE /\ auth' = [auth EXCEPT !.logins = Append(@,
                        [NoLogin EXCEPT !.at = "verifyPassword",
                                        !.isValidPassword = isValidPassword])]
          /\ UNCHANGED last
  /\ UNCHANGED <<localStorage, isInitialized, masterKey, pending, history, lz,
                 sessions, isLocked>>

\* The session ids in use: generateSessionId (lines 463-465) returns a new one.
UsedSessionIds ==
  sessions \cup {auth.logins[i].sessionId : i \in 1..Len(auth.logins)}

\* login after verifyPassword (lines 149-174): a wrong password is recorded
\* and refused; a right one calls createSession, which takes a session id
\* and suspends at generateJWT (lines 208-212).
loginVerified ==
  \E i \in 1..Len(auth.logins) :
    /\ auth.logins[i].at = "verifyPassword"
    /\ IF ~auth.logins[i].isValidPassword
       THEN /\ auth' = [auth EXCEPT !.loginAttempts = recordLoginAttempt(auth),
                                    !.logins = RemoveAt(@, i)]
            /\ last' = Thrown(Call("login"), "InvalidCredentials")
       ELSE /\ \E sessionId \in SessionIds \ UsedSessionIds :
                 auth' = [auth EXCEPT !.logins[i].at = "generateJWT",
                                      !.logins[i].sessionId = sessionId]
            /\ UNCHANGED last
    /\ UNCHANGED <<localStorage, isInitialized, masterKey, pending, history, lz,
                   sessions, isLocked>>

\* createSession after generateJWT (lines 214-226): the session is stored;
\* login is resumed later, when the promise of createSession has settled.
loginSession ==
  \E i \in 1..Len(auth.logins) :
    /\ auth.logins[i].at = "generateJWT"
    /\ sessions' = sessions \cup {auth.logins[i].sessionId}
    /\ auth' = [auth EXCEPT !.logins[i].at = "createSession"]
    /\ UNCHANGED <<localStorage, isInitialized, masterKey, pending, last,
                   history, lz, isLocked>>

\* login after createSession (lines 175-186): the attempts are cleared.
loginReturn ==
  \E i \in 1..Len(auth.logins) :
    /\ auth.logins[i].at = "createSession"
    /\ auth' = [auth EXCEPT !.loginAttempts = NoAttempts,
                            !.logins = RemoveAt(@, i)]
    /\ last' = [Returned(Call("login"), JBool(TRUE))
                  EXCEPT !.k = auth.logins[i].sessionId]
    /\ UNCHANGED <<localStorage, isInitialized, masterKey, pending, history, lz,
                   sessions, isLocked>>

\* The email is registered or not.
InitLogin ==
  /\ localStorage = [n \in StorageNames |-> NoItem]
  /\ isInitialized = FALSE
  /\ masterKey = NoKey
  /\ pending = <<>>
  /\ last = NoCall
  /\ history = [gen |-> 0, initPw |-> 0, initSalt |-> 0, deleted |-> {}]
  /\ lz = [phase |-> "idle", s |-> <<>>, c |-> Ok(<<>>), d |-> <<>>]
  /\ sessions = {}
  /\ isLocked = FALSE
  /\ auth \in {[NoAuth EXCEPT !.registered = r] : r \in BOOLEAN}

NextLogin ==
  \/ Tick
  \/ \E isValidPassword \in BOOLEAN : login(isValidPassword)
  \/ loginVerified
  \/ loginSession
  \/ loginReturn
  \/ \E id \in SessionIds : logout(id)

SpecLogin == InitLogin /\ [][NextLogin]_vars

\* C23: while the email is rate limited (five or more failed attempts since
\* the last success, the last one less than 15 minutes ago) no login call
\* is admitted and no session is created.
C23_LockoutRejectsLogin ==
  [][isRateLimited(auth) =>
       /\ Len(auth'.logins) <= Len(auth.logins)
       /\ sessions' \subseteq sessions]_vars


(***************************************************************************)
(* One-time passwords (src/auth-system.js lines 515-673), for one otpId.   *)
(* auth.otp is the record sendOTP made (stored: it is in otpStore);        *)
(* auth.verifies are the verifyOTP calls suspended at hashPassword, each   *)
(* with the number of its attempt and the time of the call.  Not in the    *)
(* program: auth.accepted lists the calls that returned success, and       *)
(* auth.handled counts the runs of handleOTPVerificationSuccess.           *)
(***************************************************************************)
otpExpiry == 300000
maxOtpAttempts == 3
MaxVerifies == 3

\* sendOTP (lines 515-568): the record is made and stored.
sendOTP ==
  /\ ~auth.otp.issued
  /\ auth' = [auth EXCEPT !.otp =
                [issued |-> TRUE, stored |-> TRUE, createdAt |-> auth.now,
                 expiresAt |-> auth.now + otpExpiry, attempts |-> 0,
                 verified |-> FALSE]]
  /\ last' = Returned(Call("sendOTP"), JBool(TRUE))
  /\ UNCHANGED <<localStorage, isInitialized, masterKey, pending, history, lz,
                 sessions, isLocked>>

\* A verifyOTP call that returned { success: false } with this message.
VerifyFailed(message) ==
  [Returned(Call("verifyOTP"), JBool(FALSE)) EXCEPT !.err = message]

\* verifyOTP with the test of line 595 as attempts > maxAttempts.
verifyOTP_admitsFourth(isRightOtp) ==
  /\ Len(auth.verifies) < MaxVerifies
  /\ IF ~auth.otp.stored
     THEN /\ last' = VerifyFailed("NotFound")
          /\ UNCHANGED auth
     ELSE IF auth.now > auth.otp.expiresAt
     THEN /\ auth' = [auth EXCEPT !.otp.stored = FALSE]
          /\ last' = VerifyFailed("Expired")
     ELSE IF auth.otp.attempts > maxOtpAttempts
     THEN /\ auth' = [auth EXCEPT !.otp.stored = FALSE]
          /\ last' = VerifyFailed("MaxAttempts")
     ELSE /\ auth' = [auth EXCEPT !.otp.attempts = @ + 1,
                        !.verifies = Append(@,
                          [isRightOtp |-> isRightOtp,
                           attempt |-> auth.otp.attempts + 1,
                           calledAt |-> auth.now])]
          /\ UNCHANGED last
  /\ UNCHANGED <<localStorage, isInitialized, masterKey, pending, history, lz,
                 sessions, isLocked>>

\* verifyOTP up to its await (lines 576-605): the record is looked up, its
\* expiry and its attempts are tested, the attempt is counted, and
\* hashPassword is called.
verifyOTP(isRightOtp) ==
  /\ Len(auth.verifies) < MaxVerifies
  /\ IF ~auth.otp.stored
     THEN /\ last' = VerifyFailed("NotFound")
          /\ UNCHANGED auth
     ELSE IF auth.now > auth.otp.expiresAt
     THEN /\ auth' = [auth EXCEPT !.otp.stored = FALSE]
          /\ last' = VerifyFailed("Expired")
     ELSE IF auth.otp.attempts >= maxOtpAttempts
     THEN /\ auth' = [auth EXCEPT !.otp.stored = FALSE]
          /\ last' = VerifyFailed("MaxAttempts")
     ELSE /\ auth' = [auth EXCEPT !.otp.attempts = @ + 1,
                        !.verifies = Append(@,
                          [isRightOtp |-> isRightOtp,
                           attempt |-> auth.otp.attempts + 1,
                           calledAt |-> auth.now])]
          /\ UNCHANGED last
  /\ UNCHANGED <<localStorage, isInitialized, masterKey, pending, history, lz,
                 sessions, isLocked>>

\* verifyOTP after hashPassword (lines 606-631): a wrong code is refused; a
\* right one marks the record the call holds, removes the otpId from the
\* store, runs handleOTPVerificationSuccess (lines 637-658) and returns
\* success.
verifyOTPResume ==
  \E i \in 1..Len(auth.verifies) :
    /\ IF ~auth.verifies[i].isRightOtp
       THEN /\ auth' = [auth EXCEPT !.verifies = RemoveAt(@, i)]
            /\ last' = VerifyFailed("Invalid")
       ELSE /\ auth' = [auth EXCEPT !.otp.verified = TRUE,
                                    !.otp.stored = FALSE,
                                    !.handled = @ + 1,
                                    !.accepted = Append(@, auth.verifies[i]),
                                    !.verifies = RemoveAt(@, i)]
            /\ last' = Returned(Call("verifyOTP"), JBool(TRUE))
    /\ UNCHANGED <<localStorage, isInitialized, masterKey, pending, history, lz,
                   sessions, isLocked>>

\* The timer of startSessionCleanup (lines 760-775): expired OTP records
\* leave the store.  A session lives sessionTimeout (line 29), longer than
\* MaxNow, so none is expired.
sessionCleanup ==
  /\ auth.otp.stored
  /\ auth.now > auth.otp.expiresAt
  /\ auth' = [auth EXCEPT !.otp.stored = FALSE]
  /\ UNCHANGED <<localStorage, isInitialized, masterKey, pending, last, history,
                 lz, sessions, isLocked>>

NextOtp ==
  \/ Tick
  \/ sendOTP
  \/ \E isRightOtp \in BOOLEAN : verifyOTP(isRightOtp)
  \/ verifyOTPResume
  \/ sessionCleanup

SpecOtp == Init /\ [][NextOtp]_vars

\* The verifyOTP calls that went past the tests of lines 581-601.
Admitted == auth.verifies \o auth.accepted

\* C24: a verifyOTP call gets past the tests, and so can succeed, only if
\* it is made no later than 5 minutes after the OTP was issued and is at
\* most the third attempt on it.
C24_OtpExpiryAndAttempts ==
  \A i \in 1..Len(Admitted) :
    /\ Admitted[i].calledAt <= auth.otp.createdAt + otpExpiry
    /\ Admitted[i].attempt <= maxOtpAttempts

\* A third attempt, made exactly five minutes after the issue, succeeded.
C24_Witness ==
  \E i \in 1..Len(auth.accepted) :
    /\ auth.accepted[i].attempt = maxOtpAttempts
    /\ auth.accepted[i].calledAt = auth.otp.createdAt + otpExpiry
    /\ auth.otp.createdAt > 0

\* C29: at most one verifyOTP call on the otpId returns success, and
\* handleOTPVerificationSuccess runs at most once for it.
C29_OtpSingleUse == Len(auth.accepted) <= 1 /\ auth.handled <= 1

=============================================================================
